---- MODULE Spec2Model ----
(***************************************************************************)
(* A model of the tora-db table engine (lib/src/engine.rs, lib/src/lib.rs): *)
(* a Db owns a sequence of columns and a sequence of rows; every public     *)
(* method of `impl Db` is an operator from (columns, rows, arguments) to    *)
(* the outcome (columns, rows, result), and one action per method applies   *)
(* it to the table.  Vec indices are 0-based in the source; the sequences   *)
(* here are 1-based, so the source's v[i] is v[i + 1].                      *)
(***************************************************************************)
EXTENDS Integers, Sequences, FiniteSets

VARIABLES columns, rows, call, result, prevColumns, prevRows

vars == <<columns, rows, call, result, prevColumns, prevRows>>

\* Bound of the exploration: number of columns plus number of rows.
MaxSize == 3

\* Index = u32 (lib.rs:7), usize is at least as wide: `index as usize` is the
\* identity, and `len as Index` is the identity for every Vec of fewer than
\* 2^32 elements, which is every Vec within the bound.

(***************************************************************************)
(* Type, Data, Column (lib.rs)                                             *)
(***************************************************************************)
Type == {"Int", "Long", "Float", "Double", "String"}

DataTag == {"Int", "Long", "Float", "Double", "String", "Null"}

Null == [tag |-> "Null"]

\* Variant of get_type: the null marker is given the type of the first arm.
get_type_NullAsInt(d) ==
    CASE d.tag = "Int"    -> "Int"
      [] d.tag = "Long"   -> "Long"
      [] d.tag = "Float"  -> "Float"
      [] d.tag = "Double" -> "Double"
      [] d.tag = "String" -> "String"
      [] d.tag = "Null"   -> "Int"

get_type(d) ==
    CASE d.tag = "Int"    -> "Int"
      [] d.tag = "Long"   -> "Long"
      [] d.tag = "Float"  -> "Float"
      [] d.tag = "Double" -> "Double"
      [] d.tag = "String" -> "String"
      [] d.tag = "Null"   -> "String"

Column(name, ty_restriction) ==
    [name |-> name, ty_restriction |-> ty_restriction]

(***************************************************************************)
(* QueryResponse / QueryError (engine.rs).  A panic of the method is the    *)
(* outcome Panic.                                                           *)
(***************************************************************************)
Ok(i) == [kind |-> "Ok", index |-> i]

OkSingle(d) == [kind |-> "OkSingle", data |-> d]

Err(e) == [kind |-> "Err", err |-> e]

TypeMismatch(expected, actual) ==
    [kind |-> "Err", err |-> "TypeMismatch", expected |-> expected, actual |-> actual]

Panic == [kind |-> "Panic"]

NoResult == [kind |-> "None"]

Outcome(cols, rws, res) == [columns |-> cols, rows |-> rws, result |-> res]

(***************************************************************************)
(* Vec helpers                                                             *)
(***************************************************************************)
\* Vec::remove(i) for i < len: the elements after i shift down by one.
VecRemove(v, i) ==
    [k \in 1..(Len(v) - 1) |-> IF k <= i THEN v[k] ELSE v[k + 1]]

\* `for row in &mut self.rows { row.remove(i); }`: row.remove(i) panics at the
\* first row with i >= row.len(); the rows before it are already changed.
RemoveFromRows(rws, i) ==
    LET bad == {k \in 1..Len(rws) : i >= Len(rws[k])}
    IN  IF bad = {}
        THEN [panic |-> FALSE,
              rows  |-> [k \in 1..Len(rws) |-> VecRemove(rws[k], i)]]
        ELSE LET first == CHOOSE k \in bad : \A m \in bad : k <= m
             IN  [panic |-> TRUE,
                  rows  |-> [k \in 1..Len(rws) |->
                               IF k < first THEN VecRemove(rws[k], i) ELSE rws[k]]]

\* Variants of PushToRows: the rows are left alone; the null marker is pushed
\* whatever the default is.
PushToRows_Forgotten(rws, default) == rws

PushToRows_Null(rws, default) ==
    [k \in 1..Len(rws) |-> Append(rws[k], Null)]

\* `for row in &mut self.rows { row.push(default.clone()); }`
PushToRows(rws, default) ==
    [k \in 1..Len(rws) |-> Append(rws[k], default)]

(***************************************************************************)
(* impl Db                                                                 *)
(***************************************************************************)
\* Variant of FirstNamed: the last column of that name.
FirstNamed_Last(cols, name, from) ==
    LET S == {i \in from..(Len(cols) - 1) : cols[i + 1].name = name}
    IN  IF S = {} THEN -1 ELSE CHOOSE i \in S : \A j \in S : j <= i

\* The loop of delete_column_by_name: the first i >= from with
\* columns[i].name == name, or -1 when the loop runs off the end.
RECURSIVE FirstNamed(_, _, _)
FirstNamed(cols, name, from) ==
    IF from >= Len(cols) THEN -1
    ELSE IF cols[from + 1].name = name THEN from
    ELSE FirstNamed(cols, name, from + 1)

delete_column_by_name(cols, rws, name) ==
    LET i == FirstNamed(cols, name, 0)
    IN  IF i = -1
        THEN Outcome(cols, rws, Err("NotFound"))
        ELSE LET rr == RemoveFromRows(rws, i)
             IN  Outcome(VecRemove(cols, i), rr.rows,
                         IF rr.panic THEN Panic ELSE Ok(i))

\* Variant of delete_column_by_index: the bound check lets index = len pass.
delete_column_by_index_Inclusive(cols, rws, index) ==
    IF index <= Len(cols)
    THEN LET rr == RemoveFromRows(rws, index)
         IN  Outcome(VecRemove(cols, index), rr.rows,
                     IF rr.panic THEN Panic ELSE Ok(index))
    ELSE Outcome(cols, rws, Err("IndexOutOfBounds"))

delete_column_by_index(cols, rws, index) ==
    IF index < Len(cols)
    THEN LET rr == RemoveFromRows(rws, index)
         IN  Outcome(VecRemove(cols, index), rr.rows,
                     IF rr.panic THEN Panic ELSE Ok(index))
    ELSE Outcome(cols, rws, Err("IndexOutOfBounds"))

\* Variant of delete_row_by_index: the last row is removed, whatever the index.
delete_row_by_index_Pop(cols, rws, index) ==
    IF index < Len(rws)
    THEN Outcome(cols, SubSeq(rws, 1, Len(rws) - 1), Ok(index))
    ELSE Outcome(cols, rws, Err("IndexOutOfBounds"))

delete_row_by_index(cols, rws, index) ==
    IF index < Len(rws)
    THEN Outcome(cols, VecRemove(rws, index), Ok(index))
    ELSE Outcome(cols, rws, Err("IndexOutOfBounds"))

\* Variant of append_column_default: a name already in use is refused.
append_column_default_UniqueNames(cols, rws, name, ty_restrict, default) ==
    IF \E k \in 1..Len(cols) : cols[k].name = name
    THEN Outcome(cols, rws, Err("DataMismatch"))
    ELSE Outcome(Append(cols, Column(name, ty_restrict)),
                 PushToRows(rws, default), Ok(Len(cols)))

append_column_default(cols, rws, name, ty_restrict, default) ==
    LET cols2 == Append(cols, Column(name, ty_restrict))
    IN  Outcome(cols2, PushToRows(rws, default),
                Ok(Len(cols2) - 1))

append_column(cols, rws, name, ty_restrict) ==
    append_column_default(cols, rws, name, ty_restrict, Null)

\* Variant of FirstMismatch: the last mismatching position.
FirstMismatch_Last(cols, data, from) ==
    LET S == {i \in from..(Len(data) - 1) :
                 cols[i + 1].ty_restriction # get_type(data[i + 1])}
    IN  IF S = {} THEN -1 ELSE CHOOSE i \in S : \A j \in S : j <= i

\* The loop of append_row: the first i >= from whose value's type differs
\* from columns[i].ty_restriction, or -1 when every value passes.
RECURSIVE FirstMismatch(_, _, _)
FirstMismatch(cols, data, from) ==
    IF from >= Len(data) THEN -1
    ELSE IF cols[from + 1].ty_restriction # get_type(data[from + 1]) THEN from
    ELSE FirstMismatch(cols, data, from + 1)

\* Variants of append_row: the row is pushed before its types are checked;
\* the types of the values that have a column are checked before the length;
\* the index returned is the number of rows after the push.
append_row_PushFirst(cols, rws, data) ==
    IF Len(data) # Len(cols)
    THEN Outcome(cols, rws, Err("DataMismatch"))
    ELSE LET i == FirstMismatch(cols, data, 0)
             rws2 == Append(rws, data)
         IN  IF i # -1
             THEN Outcome(cols, rws2,
                          TypeMismatch(cols[i + 1].ty_restriction,
                                       get_type(data[i + 1])))
             ELSE Outcome(cols, rws2, Ok(Len(rws2) - 1))

append_row_TypesFirst(cols, rws, data) ==
    LET n == IF Len(data) < Len(cols) THEN Len(data) ELSE Len(cols)
        i == FirstMismatch(cols, SubSeq(data, 1, n), 0)
    IN  IF i # -1
        THEN Outcome(cols, rws,
                     TypeMismatch(cols[i + 1].ty_restriction,
                                  get_type(data[i + 1])))
        ELSE IF Len(data) # Len(cols)
        THEN Outcome(cols, rws, Err("DataMismatch"))
        ELSE LET rws2 == Append(rws, data)
             IN  Outcome(cols, rws2, Ok(Len(rws2) - 1))

append_row_IndexAfter(cols, rws, data) ==
    IF Len(data) # Len(cols)
    THEN Outcome(cols, rws, Err("DataMismatch"))
    ELSE LET i == FirstMismatch(cols, data, 0)
         IN  IF i # -1
             THEN Outcome(cols, rws,
                          TypeMismatch(cols[i + 1].ty_restriction,
                                       get_type(data[i + 1])))
             ELSE LET rws2 == Append(rws, data)
                  IN  Outcome(cols, rws2, Ok(Len(rws2)))

append_row(cols, rws, data) ==
    IF Len(data) # Len(cols)
    THEN Outcome(cols, rws, Err("DataMismatch"))
    ELSE LET i == FirstMismatch(cols, data, 0)
         IN  IF i # -1
             THEN Outcome(cols, rws,
                          TypeMismatch(cols[i + 1].ty_restriction,
                                       get_type(data[i + 1])))
             ELSE LET rws2 == Append(rws, data)
                  IN  Outcome(cols, rws2, Ok(Len(rws2) - 1))

\* Variant of fetch_value: the bound check is made on row_index.
fetch_value_RowChecked(cols, rws, data_index, row_index) ==
    IF row_index >= Len(rws)
    THEN Outcome(cols, rws, Err("DataOutOfBounds"))
    ELSE IF data_index >= Len(rws[row_index + 1])
    THEN Outcome(cols, rws, Panic)
    ELSE Outcome(cols, rws, OkSingle(rws[row_index + 1][data_index + 1]))

\* Variant of fetch_value: the value is moved out of the row, which keeps the
\* null marker in its place.
fetch_value_Take(cols, rws, data_index, row_index) ==
    IF data_index >= Len(rws)
    THEN Outcome(cols, rws, Err("DataOutOfBounds"))
    ELSE IF row_index >= Len(rws)
    THEN Outcome(cols, rws, Panic)
    ELSE IF data_index >= Len(rws[row_index + 1])
    THEN Outcome(cols, rws, Panic)
    ELSE Outcome(cols,
                 [rws EXCEPT ![row_index + 1][data_index + 1] = Null],
                 OkSingle(rws[row_index + 1][data_index + 1]))

\* self.rows[row_index] and row[data_index] panic when out of range.
fetch_value(cols, rws, data_index, row_index) ==
    IF data_index >= Len(rws)
    THEN Outcome(cols, rws, Err("DataOutOfBounds"))
    ELSE IF row_index >= Len(rws)
    THEN Outcome(cols, rws, Panic)
    ELSE IF data_index >= Len(rws[row_index + 1])
    THEN Outcome(cols, rws, Panic)
    ELSE Outcome(cols, rws, OkSingle(rws[row_index + 1][data_index + 1]))

(***************************************************************************)
(* Id, Instruction (lib.rs) and Db::query                                  *)
(***************************************************************************)
IdName(name) == [kind |-> "Name", name |-> name]

IdIndex(i) == [kind |-> "Index", index |-> i]

DeleteColumn(id) == [kind |-> "DeleteColumn", id |-> id]

DeleteRow(index) == [kind |-> "DeleteRow", index |-> index]

AppendRow(data) == [kind |-> "AppendRow", data |-> data]

AppendColumn(name, ty) == [kind |-> "AppendColumn", name |-> name, ty |-> ty]

Fetch(a, b) == [kind |-> "Fetch", f0 |-> a, f1 |-> b]

\* Variant of query: the two fields of Fetch are passed in the other order.
query_FetchSwapped(cols, rws, instruction) ==
    CASE instruction.kind = "DeleteColumn" ->
           IF instruction.id.kind = "Name"
           THEN delete_column_by_name(cols, rws, instruction.id.name)
           ELSE delete_column_by_index(cols, rws, instruction.id.index)
      [] instruction.kind = "DeleteRow" ->
           delete_row_by_index(cols, rws, instruction.index)
      [] instruction.kind = "AppendColumn" ->
           append_column(cols, rws, instruction.name, instruction.ty)
      [] instruction.kind = "AppendRow" ->
           append_row(cols, rws, instruction.data)
      [] instruction.kind = "Fetch" ->
           fetch_value(cols, rws, instruction.f1, instruction.f0)

query(cols, rws, instruction) ==
    CASE instruction.kind = "DeleteColumn" ->
           IF instruction.id.kind = "Name"
           THEN delete_column_by_name(cols, rws, instruction.id.name)
           ELSE delete_column_by_index(cols, rws, instruction.id.index)
      [] instruction.kind = "DeleteRow" ->
           delete_row_by_index(cols, rws, instruction.index)
      [] instruction.kind = "AppendColumn" ->
           append_column(cols, rws, instruction.name, instruction.ty)
      [] instruction.kind = "AppendRow" ->
           append_row(cols, rws, instruction.data)
      [] instruction.kind = "Fetch" ->
           fetch_value(cols, rws, instruction.f0, instruction.f1)

(***************************************************************************)
(* Inputs of the calls                                                     *)
(***************************************************************************)
NameInputs == {"X", "Y"}

TypeInputs == {"Int", "Long", "String"}

DataInputs == {[tag |-> "Int", v |-> 5], [tag |-> "String", v |-> "hi"], Null}

\* Index arguments: every valid index of a table within the bound, and one more.
IndexInputs == 0..MaxSize

RECURSIVE SeqsOfLen(_, _)
SeqsOfLen(S, n) ==
    IF n = 0 THEN {<<>>}
    ELSE {Append(s, x) : s \in SeqsOfLen(S, n - 1), x \in S}

\* Rows offered to append_row: every row that a table within the bound can
\* take (a table of MaxSize columns has no room for a row), so that tables of
\* fewer columns are offered rows that are too long and tables of more
\* columns rows that are too short.
RowInputs == UNION {SeqsOfLen(DataInputs, k) : k \in 0..(MaxSize - 1)}

InstructionInputs ==
    {DeleteColumn(IdName(nm)) : nm \in NameInputs}
    \cup {DeleteColumn(IdIndex(i)) : i \in IndexInputs}
    \cup {DeleteRow(i) : i \in IndexInputs}
    \cup {AppendRow(d) : d \in RowInputs}
    \cup {AppendColumn(nm, ty) : nm \in NameInputs, ty \in TypeInputs}
    \cup {Fetch(a, b) : a \in IndexInputs, b \in IndexInputs}

(***************************************************************************)
(* The state machine                                                       *)
(***************************************************************************)
NoCall == [op |-> "none"]

\* Db::default(): no columns, no rows; no call has been made.
Init ==
    /\ columns = <<>>
    /\ rows = <<>>
    /\ call = NoCall
    /\ result = NoResult
    /\ prevColumns = <<>>
    /\ prevRows = <<>>

\* The effect of one call of a method on the table: the table becomes the
\* outcome's, and the call and its result are recorded together with the
\* table the call was made on.  The exploration stops at the bound.  Every
\* call is made by a caller that holds no pending result (call = NoCall).
Do(c, out) ==
    /\ Len(out.columns) + Len(out.rows) <= MaxSize
    /\ columns' = out.columns
    /\ rows' = out.rows
    /\ call' = c
    /\ result' = out.result
    /\ prevColumns' = columns
    /\ prevRows' = rows

\* The caller takes the QueryResult and is ready for its next call.  A panic
\* ends the program: nothing follows it.
Return ==
    /\ call # NoCall
    /\ result.kind # "Panic"
    /\ call' = NoCall
    /\ result' = NoResult
    /\ prevColumns' = columns
    /\ prevRows' = rows
    /\ UNCHANGED <<columns, rows>>

DeleteColumnByName ==
    /\ call = NoCall
    /\ \E name \in NameInputs :
           Do([op |-> "delete_column_by_name", name |-> name],
              delete_column_by_name(columns, rows, name))

DeleteColumnByIndex ==
    /\ call = NoCall
    /\ \E index \in IndexInputs :
           Do([op |-> "delete_column_by_index", index |-> index],
              delete_column_by_index(columns, rows, index))

DeleteRowByIndex ==
    /\ call = NoCall
    /\ \E index \in IndexInputs :
           Do([op |-> "delete_row_by_index", index |-> index],
              delete_row_by_index(columns, rows, index))

AppendColumnCall ==
    /\ call = NoCall
    /\ \E name \in NameInputs, ty \in TypeInputs :
           Do([op |-> "append_column", name |-> name, ty |-> ty],
              append_column(columns, rows, name, ty))

AppendColumnDefault ==
    /\ call = NoCall
    /\ \E name \in NameInputs, ty \in TypeInputs, default \in DataInputs :
           Do([op |-> "append_column_default", name |-> name, ty |-> ty,
               default |-> default],
              append_column_default(columns, rows, name, ty, default))

AppendRowCall ==
    /\ call = NoCall
    /\ \E data \in RowInputs :
           Do([op |-> "append_row", data |-> data],
              append_row(columns, rows, data))

FetchValue ==
    /\ call = NoCall
    /\ \E data_index \in IndexInputs, row_index \in IndexInputs :
           Do([op |-> "fetch_value", data_index |-> data_index,
               row_index |-> row_index],
              fetch_value(columns, rows, data_index, row_index))

Query ==
    /\ call = NoCall
    /\ \E instruction \in InstructionInputs :
           Do([op |-> "query", instruction |-> instruction],
              query(columns, rows, instruction))

Next ==
    \/ DeleteColumnByName
    \/ DeleteColumnByIndex
    \/ DeleteRowByIndex
    \/ AppendColumnCall
    \/ AppendColumnDefault
    \/ AppendRowCall
    \/ FetchValue
    \/ Query
    \/ Return

Spec == Init /\ [][Next]_vars

(***************************************************************************)
(* The same table driven with columns of every Type and values of every    *)
(* kind of Data: append_column, append_row and the caller's Return.  The    *)
(* payloads of Float and Double are numbered, the engine never looks at a   *)
(* payload.                                                                 *)
(***************************************************************************)
AllDataInputs ==
    {[tag |-> "Int", v |-> 5], [tag |-> "Long", v |-> 7],
     [tag |-> "Float", v |-> 1], [tag |-> "Double", v |-> 2],
     [tag |-> "String", v |-> "hi"], Null}

AllRowInputs == UNION {SeqsOfLen(AllDataInputs, k) : k \in 0..(MaxSize - 1)}

AppendColumnAnyType ==
    /\ call = NoCall
    /\ \E ty \in Type :
           Do([op |-> "append_column", name |-> "X", ty |-> ty],
              append_column(columns, rows, "X", ty))

AppendRowAnyKind ==
    /\ call = NoCall
    /\ \E data \in AllRowInputs :
           Do([op |-> "append_row", data |-> data],
              append_row(columns, rows, data))

NextAllTypes ==
    \/ AppendColumnAnyType
    \/ AppendRowAnyKind
    \/ Return

SpecAllTypes == Init /\ [][NextAllTypes]_vars

(***************************************************************************)
(* Loading a Db from bytes: LoadDbError and `impl TryFrom<&[u8]> for Db`    *)
(* (engine.rs).  The codec (`value.reads()`, crate tora) is outside the     *)
(* engine: its outcome is an input, either a decoded Db or an io::Error of  *)
(* some kind.  An io::Error is its kind and the text of its to_string().    *)
(***************************************************************************)
LoadDbErrorKind == {"Malformed", "Io"}

\* The kinds of io::Error drawn: InvalidData and others.
IoErrorKind ==
    {"InvalidData", "UnexpectedEof", "InvalidInput", "NotFound",
     "PermissionDenied", "Interrupted", "OutOfMemory", "Other"}

IoError(kind) == [kind |-> kind, message |-> kind]

LoadDbError_new(message, kind) == [message |-> message, kind |-> kind]

\* Variant of LoadDbError_from: a truncated input counts as malformed too.
LoadDbError_from_EofMalformed(value) ==
    IF value.kind \in {"InvalidData", "UnexpectedEof"}
    THEN LoadDbError_new(value.message, "Malformed")
    ELSE LoadDbError_new(value.message, "Io")

\* impl From<io::Error> for LoadDbError
LoadDbError_from(value) ==
    IF value.kind = "InvalidData"
    THEN LoadDbError_new(value.message, "Malformed")
    ELSE LoadDbError_new(value.message, "Io")

ReadsOutcomes ==
    {[ok |-> TRUE]} \cup {[ok |-> FALSE, error |-> IoError(k)] : k \in IoErrorKind}

\* `Ok(value.reads()?)`: the `?` converts the io::Error with From.
try_from(reads) ==
    IF reads.ok
    THEN [kind |-> "Loaded"]
    ELSE [kind |-> "LoadErr", error |-> LoadDbError_from(reads.error)]

\* Db::try_from(bytes) builds a new Db or fails; the table at hand is not
\* touched.
TryFromBytes ==
    /\ call = NoCall
    /\ \E reads \in ReadsOutcomes :
           Do([op |-> "try_from", reads |-> reads],
              Outcome(columns, rows, try_from(reads)))

\* A program that builds a table and loads tables from bytes (bin/src/main.rs).
NextLoad ==
    \/ AppendColumnCall
    \/ AppendRowCall
    \/ TryFromBytes
    \/ Return

SpecLoad == Init /\ [][NextLoad]_vars

(***************************************************************************)
(* Vocabulary of the properties.  A state with call # NoCall is the state   *)
(* right after that call: (prevColumns, prevRows) is the table the call was *)
(* made on, (columns, rows) the table it left, result what it returned.     *)
(***************************************************************************)
\* s without its element at the 1-based position p.
Without(s, p) == SubSeq(s, 1, p - 1) \o SubSeq(s, p + 1, Len(s))

\* The 1-based positions at which the row `data` does not fit the columns.
Misfits(cols, data) ==
    {p \in 1..Len(data) : cols[p].ty_restriction # get_type(data[p])}

\* The 1-based positions of the columns called `name`.
Named(cols, name) == {p \in 1..Len(cols) : cols[p].name = name}

Least(S) == CHOOSE p \in S : \A q \in S : p <= q

IntData == [tag |-> "Int", v |-> 5]

TextData == [tag |-> "String", v |-> "hi"]

\* C1: every row has as many values as the table has columns, in every
\* state reachable from the empty table, after successful and failed calls.
C1_ShapeInvariant ==
    \A k \in 1..Len(rows) : Len(rows[k]) = Len(columns)

\* C1 witness: a column was deleted from, or appended to, a table with rows.
C1_Witness ==
    /\ call.op \in {"delete_column_by_index", "append_column_default"}
    /\ result.kind = "Ok"
    /\ Len(prevRows) >= 1
    /\ Len(prevColumns) >= 1
    /\ Len(columns) # Len(prevColumns)

\* C2: a call that returns an error leaves columns and rows as they were.
C2_AllOrNothing ==
    result.kind = "Err" => (columns = prevColumns /\ rows = prevRows)

\* C2 witness: append_row failed its type check on a table that has a row.
C2_Witness ==
    /\ call.op = "append_row"
    /\ result.kind = "Err"
    /\ result.err = "TypeMismatch"
    /\ Len(prevRows) >= 1

\* C3: every call returns a success payload or a typed error; none panics.
C3_NoPanic ==
    call # NoCall => result.kind \in {"Ok", "OkSingle", "Err"}

\* C4: append_row of a row whose length differs from the number of columns
\* returns DataMismatch, whatever the types of the values.
C4_LengthCheckedFirst ==
    (call.op = "append_row" /\ Len(call.data) # Len(prevColumns))
        => result = Err("DataMismatch")

\* C4 witness: a row of the wrong length whose first value also has the
\* wrong type for the first column.
C4_Witness ==
    /\ call.op = "append_row"
    /\ Len(call.data) # Len(prevColumns)
    /\ Len(call.data) >= 1
    /\ Len(prevColumns) >= 1
    /\ prevColumns[1].ty_restriction # get_type(call.data[1])
    /\ result = Err("DataMismatch")

\* C5: append_row of a row of the right length with a value of the wrong type
\* returns TypeMismatch(expected, actual) for the lowest mismatching position:
\* expected is that column's restriction, actual the type of the value there.
C5_FirstTypeMismatch ==
    (/\ call.op = "append_row"
     /\ Len(call.data) = Len(prevColumns)
     /\ Misfits(prevColumns, call.data) # {})
        => LET p == Least(Misfits(prevColumns, call.data))
           IN  result = TypeMismatch(prevColumns[p].ty_restriction,
                                     get_type(call.data[p]))

\* C5 witness: two positions mismatch and they would be reported differently.
C5_Witness ==
    /\ call.op = "append_row"
    /\ Len(call.data) = Len(prevColumns)
    /\ Misfits(prevColumns, call.data) = {1, 2}
    /\ prevColumns[1].ty_restriction # prevColumns[2].ty_restriction
    /\ result.kind = "Err"

\* C5 witness of the example: a Text value for a single Int column.
C5_ExampleWitness ==
    /\ call.op = "append_row"
    /\ Len(prevColumns) = 1
    /\ prevColumns[1].ty_restriction = "Int"
    /\ call.data = <<TextData>>
    /\ result = TypeMismatch("Int", "String")

\* C6: append_row of a row that fits adds it as the last row, keeps the
\* columns and the stored rows, and returns the new row's index.
C6_AppendRowSuccess ==
    (/\ call.op = "append_row"
     /\ Len(call.data) = Len(prevColumns)
     /\ Misfits(prevColumns, call.data) = {})
        => /\ rows = prevRows \o <<call.data>>
           /\ columns = prevColumns
           /\ result = Ok(Len(prevRows))

\* C6 witness: a non-empty row was appended to a table that had a row.
C6_Witness ==
    /\ call.op = "append_row"
    /\ result.kind = "Ok"
    /\ Len(prevRows) >= 1
    /\ Len(call.data) >= 1

\* C7: append_column and append_column_default return Ok(number of columns
\* before the call) and put the new column last, whatever the name.
C7_AppendColumnSucceeds ==
    call.op \in {"append_column", "append_column_default"}
        => /\ result = Ok(Len(prevColumns))
           /\ columns = prevColumns \o <<Column(call.name, call.ty)>>

\* C7 witness: the name of the new column was already in use.
C7_Witness ==
    /\ call.op \in {"append_column", "append_column_default"}
    /\ Named(prevColumns, call.name) # {}
    /\ result.kind = "Ok"

\* C8: appending a column with default v keeps the number of rows and makes
\* every row its former values followed by v; v is the null marker for
\* append_column and for query(AppendColumn).
C8_DefaultFill ==
    LET filled(v) ==
            /\ Len(rows) = Len(prevRows)
            /\ \A k \in 1..Len(prevRows) : rows[k] = prevRows[k] \o <<v>>
    IN  /\ call.op = "append_column_default" => filled(call.default)
        /\ call.op = "append_column" => filled(Null)
        /\ (call.op = "query" /\ call.instruction.kind = "AppendColumn")
               => filled(Null)

\* C8 witness: a non-null default was given to a table with a row of values.
C8_Witness ==
    /\ call.op = "append_column_default"
    /\ call.default # Null
    /\ Len(prevRows) >= 1
    /\ Len(prevColumns) >= 1
    /\ result.kind = "Ok"

\* C9: delete_column_by_name returns NotFound exactly when no column has the
\* name; otherwise it removes the lowest-index column of that name and the
\* value at that position of every row, keeps the rest in order, and returns
\* that index.
C9_DeleteFirstNamed ==
    call.op = "delete_column_by_name"
        => LET named == Named(prevColumns, call.name)
           IN  /\ (result = Err("NotFound")) <=> (named = {})
               /\ named # {}
                    => LET p == Least(named)
                       IN  /\ columns = Without(prevColumns, p)
                           /\ Len(rows) = Len(prevRows)
                           /\ \A k \in 1..Len(prevRows) :
                                  rows[k] = Without(prevRows[k], p)
                           /\ result = Ok(p - 1)

\* C9 witness: two columns had the name, and the table had a row.
C9_Witness ==
    /\ call.op = "delete_column_by_name"
    /\ Cardinality(Named(prevColumns, call.name)) >= 2
    /\ Len(prevRows) >= 1
    /\ result.kind = "Ok"

\* C10: delete_column_by_index(i) returns IndexOutOfBounds exactly when
\* i >= len(columns); otherwise it removes column i and the value at position
\* i of every row, keeps the rest in order, and returns Ok(i).
C10_DeleteColumnByIndex ==
    call.op = "delete_column_by_index"
        => /\ (result = Err("IndexOutOfBounds")) <=> (call.index >= Len(prevColumns))
           /\ call.index < Len(prevColumns)
                => /\ columns = Without(prevColumns, call.index + 1)
                   /\ Len(rows) = Len(prevRows)
                   /\ \A k \in 1..Len(prevRows) :
                          rows[k] = Without(prevRows[k], call.index + 1)
                   /\ result = Ok(call.index)

\* C10 witness: the example, columns [String, Int] with the row ["hi", 5],
\* deleting index 1 leaves the String column and the row ["hi"].
C10_Witness ==
    /\ call.op = "delete_column_by_index"
    /\ call.index = 1
    /\ Len(prevColumns) = 2
    /\ prevColumns[1].ty_restriction = "String"
    /\ prevColumns[2].ty_restriction = "Int"
    /\ prevRows = << <<TextData, IntData>> >>
    /\ columns = <<prevColumns[1]>>
    /\ rows = << <<TextData>> >>
    /\ result = Ok(1)

\* C11: delete_row_by_index(i) returns IndexOutOfBounds exactly when
\* i >= len(rows); otherwise it removes exactly row i, keeps the columns and
\* the other rows in their order, and returns Ok(i).
C11_DeleteRowByIndex ==
    call.op = "delete_row_by_index"
        => /\ (result = Err("IndexOutOfBounds")) <=> (call.index >= Len(prevRows))
           /\ call.index < Len(prevRows)
                => /\ rows = Without(prevRows, call.index + 1)
                   /\ columns = prevColumns
                   /\ result = Ok(call.index)

\* C11 witness: the first of two different rows was deleted, so the second
\* shifted down.
C11_Witness ==
    /\ call.op = "delete_row_by_index"
    /\ call.index = 0
    /\ Len(prevRows) = 2
    /\ prevRows[1] # prevRows[2]
    /\ rows = <<prevRows[2]>>
    /\ result = Ok(0)

\* C12: fetch_value(a, b) returns an error whenever a >= len(rows); whenever
\* it succeeds the value returned is the one at position a of row b.  On the
\* table of one Text column with the single row ["hi"], fetch_value(0, 0)
\* returns "hi" and fetch_value(1, 0) fails with DataOutOfBounds or
\* IndexOutOfBounds.
C12_FetchContract ==
    call.op = "fetch_value"
        => /\ call.data_index >= Len(prevRows) => result.kind = "Err"
           /\ result.kind = "OkSingle"
                => /\ call.row_index < Len(prevRows)
                   /\ call.data_index < Len(prevRows[call.row_index + 1])
                   /\ result.data = prevRows[call.row_index + 1][call.data_index + 1]
           /\ (/\ Len(prevColumns) = 1
               /\ prevColumns[1].ty_restriction = "String"
               /\ prevRows = << <<TextData>> >>)
                => /\ (call.data_index = 0 /\ call.row_index = 0)
                        => result = OkSingle(TextData)
                   /\ (call.data_index = 1 /\ call.row_index = 0)
                        => result \in {Err("DataOutOfBounds"), Err("IndexOutOfBounds")}

\* C12 witness: the fetch scenario's failing call, fetch_value(1, 0) on the
\* one-column table with the single row ["hi"].
C12_Witness ==
    /\ call.op = "fetch_value"
    /\ call.data_index = 1
    /\ call.row_index = 0
    /\ Len(prevColumns) = 1
    /\ prevColumns[1].ty_restriction = "String"
    /\ prevRows = << <<TextData>> >>
    /\ result.kind = "Err"

\* C12 witness of a success in which the two arguments differ: the value of
\* the second of two different rows was fetched.
C12_CrossedWitness ==
    /\ call.op = "fetch_value"
    /\ call.data_index = 0
    /\ call.row_index = 1
    /\ Len(prevRows) = 2
    /\ prevRows[1] # prevRows[2]
    /\ result = OkSingle(prevRows[2][1])

\* C13: DataOutOfBounds means a value position outside the row's width: for
\* every existing cell (row_index < len(rows), data_index < len(columns))
\* fetch_value does not return DataOutOfBounds but the cell's value.
C13_DataOutOfBoundsMeansWidth ==
    (/\ call.op = "fetch_value"
     /\ call.row_index < Len(prevRows)
     /\ call.data_index < Len(prevColumns))
        => /\ result # Err("DataOutOfBounds")
           /\ result = OkSingle(prevRows[call.row_index + 1][call.data_index + 1])

\* The direct call that an Instruction stands for, made on the table
\* (cols, rws): the correspondence that C14 states.
DirectCall(cols, rws, ins) ==
    IF ins.kind = "DeleteColumn" /\ ins.id.kind = "Name"
        THEN delete_column_by_name(cols, rws, ins.id.name)
    ELSE IF ins.kind = "DeleteColumn" /\ ins.id.kind = "Index"
        THEN delete_column_by_index(cols, rws, ins.id.index)
    ELSE IF ins.kind = "DeleteRow"
        THEN delete_row_by_index(cols, rws, ins.index)
    ELSE IF ins.kind = "AppendRow"
        THEN append_row(cols, rws, ins.data)
    ELSE IF ins.kind = "AppendColumn"
        THEN append_column_default(cols, rws, ins.name, ins.ty, Null)
    ELSE fetch_value(cols, rws, ins.f0, ins.f1)

\* C14: query(instruction) returns the result of, and leaves the table as,
\* the corresponding direct call on the same table: DeleteColumn(Name(n)) as
\* delete_column_by_name(n), DeleteColumn(Index(i)) as
\* delete_column_by_index(i), DeleteRow(i) as delete_row_by_index(i),
\* AppendRow(v) as append_row(v), AppendColumn(n, t) as append_column(n, t)
\* with the null default, Fetch(a, b) as fetch_value(a, b).
C14_UniformDispatch ==
    call.op = "query"
        => LET direct == DirectCall(prevColumns, prevRows, call.instruction)
           IN  /\ result = direct.result
               /\ columns = direct.columns
               /\ rows = direct.rows

\* C14 witness: a Fetch whose two fields differ returned a value, from a table
\* whose two rows differ.
C14_Witness ==
    /\ call.op = "query"
    /\ call.instruction.kind = "Fetch"
    /\ call.instruction.f0 = 0
    /\ call.instruction.f1 = 1
    /\ Len(prevRows) = 2
    /\ prevRows[1] # prevRows[2]
    /\ result = OkSingle(prevRows[2][1])

\* C15: delete_column_by_name returns a success for every reachable table
\* and every name, never an error (the method's doc comment, "Always returns
\* Ok with some value").
C15_AlwaysOk ==
    call.op = "delete_column_by_name" => result.kind = "Ok"

\* A value fits a restriction: it is a value of that kind, or the null marker
\* for a Text column.
FitsColumn(d, ty) == d.tag = ty \/ (d.tag = "Null" /\ ty = "String")

\* The 1-based positions at which the row `data` does not fit, in that sense.
Unfit(cols, data) ==
    {p \in 1..Len(data) : ~FitsColumn(data[p], cols[p].ty_restriction)}

\* C16: the type projection is total over the six kinds of value and maps
\* the null marker to Text; append_row accepts a row whose null values stand
\* at Text columns, and rejects a null value at an Int, Long, Float or Double
\* column with TypeMismatch(that restriction, Text).
C16_NullProjectsToText ==
    /\ \A d \in AllDataInputs : get_type(d) \in Type
    /\ get_type(Null) = "String"
    /\ (call.op = "append_row" /\ Len(call.data) = Len(prevColumns))
           => LET unfit == Unfit(prevColumns, call.data)
              IN  /\ unfit = {} => result = Ok(Len(prevRows))
                  /\ (unfit # {} /\ call.data[Least(unfit)] = Null)
                         => result = TypeMismatch(
                                prevColumns[Least(unfit)].ty_restriction, "String")

\* C16 witness: a null value was refused at a Float or Double column.
C16_Witness ==
    /\ call.op = "append_row"
    /\ Len(call.data) = Len(prevColumns)
    /\ Unfit(prevColumns, call.data) # {}
    /\ LET p == Least(Unfit(prevColumns, call.data))
       IN  /\ call.data[p] = Null
           /\ prevColumns[p].ty_restriction \in {"Float", "Double"}
           /\ result = TypeMismatch(prevColumns[p].ty_restriction, "String")

\* C16 witness of the acceptance: a row with a null value at a Text column
\* was appended.
C16_AcceptWitness ==
    /\ call.op = "append_row"
    /\ Len(call.data) = Len(prevColumns)
    /\ \E p \in 1..Len(call.data) :
           call.data[p] = Null /\ prevColumns[p].ty_restriction = "String"
    /\ result.kind = "Ok"
    /\ rows = prevRows \o <<call.data>>

\* C17: in every reachable state the type of the value stored at position p
\* of every row (the null marker projecting to Text) is the type restriction
\* of column p.
C17_TypeConformance ==
    \A k \in 1..Len(rows) :
        \A p \in 1..Len(rows[k]) :
            p <= Len(columns) => get_type(rows[k][p]) = columns[p].ty_restriction

\* C18: a call of fetch_value, or of query with a Fetch, that returns (a
\* value or an error) leaves the columns and the rows as they were.
C18_FetchReadOnly ==
    (/\ \/ call.op = "fetch_value"
        \/ (call.op = "query" /\ call.instruction.kind = "Fetch")
     /\ result.kind \in {"OkSingle", "Err"})
        => (columns = prevColumns /\ rows = prevRows)

\* C18 witness: a fetch returned a value that is not the null marker.
C18_Witness ==
    /\ call.op = "fetch_value"
    /\ result.kind = "OkSingle"
    /\ result.data # Null
    /\ Len(prevColumns) >= 1

\* C19: when loading from bytes fails, the LoadDbError has kind Malformed
\* exactly when the io::Error's kind is InvalidData, and kind Io for every
\* other kind.
C19_LoadErrorClassification ==
    (call.op = "try_from" /\ ~call.reads.ok)
        => /\ result.kind = "LoadErr"
           /\ result.error.kind \in LoadDbErrorKind
           /\ (result.error.kind = "Malformed")
                  <=> (call.reads.error.kind = "InvalidData")
           /\ (result.error.kind = "Io")
                  <=> (call.reads.error.kind # "InvalidData")

\* C19 witness: a load failed on a truncated input and was classified Io.
C19_Witness ==
    /\ call.op = "try_from"
    /\ ~call.reads.ok
    /\ call.reads.error.kind = "UnexpectedEof"
    /\ result.kind = "LoadErr"
    /\ result.error.kind = "Io"

\* C19 witness of the other class: invalid data was classified Malformed.
C19_MalformedWitness ==
    /\ call.op = "try_from"
    /\ ~call.reads.ok
    /\ call.reads.error.kind = "InvalidData"
    /\ result.kind = "LoadErr"
    /\ result.error.kind = "Malformed"

====
